---- MODULE Spec2Model ----
(***************************************************************************)
(* The request-queuing and dispatch layer of the storyboard editor's       *)
(* generation service: class RequestQueue, its two instances imageQueue    *)
(* and textQueue, and the router geminiRequest.                            *)
(*                                                                         *)
(* The program is single-threaded; an async function runs without          *)
(* interruption up to its next await.  Every action below is one such run: *)
(*   GeminiRequest(model, payload)  a call of geminiRequest up to the      *)
(*                             return of queue.add (push, then process()); *)
(*   Settle(t, ok)             the wrapper of task t resuming from         *)
(*                             `await task()` and settling the future;     *)
(*   Resume(t)                 the process() invocation that started t     *)
(*                             resuming from `await task()`: its finally.  *)
(* Strings are sequences of one-character strings.  An optional field is   *)
(* the empty set when absent and a singleton when present.                 *)
(*                                                                         *)
(* One call of the task geminiRequest hands to the queue (fetchWithRetry,  *)
(* then the reading of the response) is specified by SpecCall, with the    *)
(* variables callVars; the other specifications leave them alone.          *)
(*                                                                         *)
(* One public operation, from its call to the request geminiRequest builds *)
(* (getConfig, normalizeBaseUrl, the URL, the choice of the queue), is     *)
(* specified by SpecConfig, with the variables configVars.                 *)
(* SpecSettings follows operations one after another while handleSave of   *)
(* the settings dialog writes the record; SpecResult follows one operation *)
(* to its return value (sessionVars).                                      *)
(*                                                                         *)
(* SpecLanes follows the two lanes of the program by counts (laneVars):    *)
(* the tasks of a lane are alike for the counter, and ten of them fill the *)
(* text lane.                                                              *)
(*                                                                         *)
(* FairSpecCall is SpecCall with every request and every backoff timer     *)
(* ending.  SpecWire follows the task of one dispatch from queue.add to    *)
(* the last request of fetchWithRetry while the settings are saved         *)
(* (wireVars).  SpecEditor is the editor component App of src/index.tsx:   *)
(* its node graph, the isGenerating flags and the object URLs of the       *)
(* images (editorVars).                                                    *)
(***************************************************************************)
EXTENDS Integers, Sequences, FiniteSets, TLC

\* ---------------------------------------------------------------- bounds
\* Number of geminiRequest calls made in one run.
MaxTasks == 4
\* Largest maxConcurrency a RequestQueue is constructed with under SpecN.
MaxN == 2
\* Largest maxRetries fetchWithRetry is called with under SpecCall.
MaxRetriesBound == 3
\* Longest configured host drawn from HostAlphabet under SpecConfig.
MaxHostLen == 3
\* Longest parts list of the first candidate of a response under SpecResult.
MaxParts == 2
\* Longest pending list of a lane under SpecLanes.
MaxPending == 2
\* The editor: node ids drawn, object URLs created, service calls waiting.
MaxNodes == 3
MaxUrls == 2
MaxCalls == 1

\* ------------------------------------------------------ program constants
\* new RequestQueue(1)
ImageConcurrency == 1
\* new RequestQueue(10)
TextConcurrency == 10
\* fetchWithRetry(url, options, maxRetries = 3)
DefaultMaxRetries == 3
\* Math.pow(2, attempt) * 2000
BackoffBase == 2000

Lanes == {"image", "text"}
Tasks == 1..MaxTasks

\* The bounds of the two queues the module constructs.
ProgramConcurrency == [q \in Lanes |-> IF q = "image" THEN ImageConcurrency ELSE TextConcurrency]

\* ------------------------------------------------------------ dispatch inputs
ImageMarker == <<"i", "m", "a", "g", "e">>
TextModelDefault == <<"g", "e", "m", "i", "n", "i", "-", "3", "-", "f", "l", "a", "s", "h", "-", "p", "r", "e", "v", "i", "e", "w">>
ImageModelDefault == <<"g", "e", "m", "i", "n", "i", "-", "3", "-", "p", "r", "o", "-", "i", "m", "a", "g", "e", "-", "p", "r", "e", "v", "i", "e", "w">>
\* A model id a user can put in the settings: capital I, no lower-case marker.
UserModel == <<"I", "m", "a", "g", "e", "n", "-", "4">>
ModelIds == {TextModelDefault, ImageModelDefault, UserModel}

\* Payload shapes the callers of geminiRequest build: no generationConfig
\* (editFrame, analyzeAsset, testConnection), a generationConfig carrying an
\* imageConfig object (generateStoryboardFrame, refineImageClarity), and a
\* generationConfig without imageConfig.
ImageConfigs == {[imageSize |-> "1K"]}
GenerationConfigs == {[imageConfig |-> {}]} \cup {[imageConfig |-> {c}] : c \in ImageConfigs}
Payloads == {[generationConfig |-> {}]} \cup {[generationConfig |-> {g}] : g \in GenerationConfigs}

NoDispatch == [task |-> 0, model |-> <<>>, payload |-> [generationConfig |-> {}]]

VARIABLES
  maxConcurrency,  \* per queue: the constructor argument
  queue,           \* per queue: the pending wrappers, oldest first
  activeCount,     \* per queue: the counter of process()
  pc,              \* per task: where its wrapper stands
  lane,            \* per task: the queue geminiRequest passed it to
  invoked,         \* per task: how many times task() was called
  future,          \* per task: the promise add returned
  dispatched       \* the geminiRequest call that made this state: its
                   \* arguments and task; NoDispatch after any other step

queueVars == <<maxConcurrency, queue, activeCount, pc, lane, invoked, future, dispatched>>

VARIABLES
  maxRetries,      \* fetchWithRetry: its third argument
  attempt,         \* fetchWithRetry: its counter
  fpc,             \* where the call stands: "fetch", "wait", "lastFetch"
                   \* (the fetch after the loop), "returned", "done"
  log,             \* the requests, responses, waits and failures so far
  fetched,         \* what fetchWithRetry gave its caller, and the body the
                   \* caller found in it
  outcome          \* what the task gave the queue

callVars == <<maxRetries, attempt, fpc, log, fetched, outcome>>

VARIABLES
  stored,          \* localStorage: what is kept under 'proxy_config'
  envKey,          \* process.env.API_KEY
  op,              \* the public operation that was called
  opc,             \* where it stands: "idle", "prepared" (model chosen,
                   \* payload being built), "dispatched", "raised"
  config,          \* what the last getConfig() returned
  opModel,         \* the model id the operation chose (its `model`)
  request          \* what geminiRequest built: url, api key, queue

configVars == <<stored, envKey, op, opc, config, opModel, request>>

VARIABLES
  previous,        \* the request of the operation followed before this one
  data,            \* the JSON geminiRequest resolved with
  result           \* what the operation returned to its caller

sessionVars == <<previous, data, result>>

\* A lane followed by counts, its tasks being alike.
VARIABLES
  laneLen,         \* per queue: queue.length
  laneActive,      \* per queue: activeCount
  laneFetching,    \* per queue: tasks whose fetchWithRetry has a request out
  laneWaiting,     \* per queue: tasks whose fetchWithRetry is in a backoff wait
  laneSettled      \* per queue: tasks over, the finally of their process()
                   \* not yet run

laneVars == <<laneLen, laneActive, laneFetching, laneWaiting, laneSettled>>

\* The task of one dispatch on its way through the queue and fetchWithRetry.
VARIABLES
  wire,            \* where the task stands: "none", "pending" (in the
                   \* pending list), "fetch" (a request is out), "settled"
  sent             \* the requests fetch was called with, oldest first, each
                   \* with whether the settings then differed from the ones
                   \* the dispatch read

wireVars == <<wire, sent>>

\* The editor (App): its node graph and the object URLs of its images.
VARIABLES
  nodes,           \* the nodes state: id -> parentIds, connectedTo, imageUrl,
                   \* isGenerating
  edges,           \* the edges state: <<source, target>> pairs
  revoked,         \* the object URLs URL.revokeObjectURL was called with
  created,         \* how many object URLs have been created
  ids,             \* how many node ids addNode has drawn
  calls            \* the handleGenerate and handleEditSave calls that wait
                   \* for the service, each with the node it read

editorVars == <<nodes, edges, revoked, created, ids, calls>>

vars == <<queueVars, callVars, configVars, sessionVars, laneVars, wireVars, editorVars>>

\* ------------------------------------------------------------ pure helpers
\* String.prototype.includes
Includes(s, sub) ==
  \E i \in 1..(Len(s) - Len(sub) + 1) : SubSeq(s, i, i + Len(sub) - 1) = sub

\* Variant: payload.generationConfig tested, its imageConfig not looked at.
HasGenerationConfig(payload) == payload.generationConfig # {}

\* payload.generationConfig?.imageConfig as a truth value: undefined when
\* either field is absent, an object (truthy) otherwise.
HasImageConfig(payload) ==
  \E g \in payload.generationConfig : g.imageConfig # {}

\* Variant: the model id alone decides, the payload is not looked at.
IsImageTaskByModel(model, payload) == Includes(model, ImageMarker)

\* model.includes('image') || payload.generationConfig?.imageConfig
IsImageTask(model, payload) == Includes(model, ImageMarker) \/ HasImageConfig(payload)

Route(model, payload) == IF IsImageTask(model, payload) THEN "image" ELSE "text"

\* Variant: the bound compared with > instead of >=.
ProcessStartsOffByOne(q, pending, active) ==
  ~(active > maxConcurrency[q] \/ Len(pending) = 0)

\* Variant: any task in flight blocks the queue, whatever its bound.
ProcessStartsSerial(q, pending, active) ==
  ~(active >= 1 \/ Len(pending) = 0)

\* The guard of process(): it goes on past its first line.
ProcessStarts(q, pending, active) ==
  ~(active >= maxConcurrency[q] \/ Len(pending) = 0)

\* Variant: pop() in place of shift().
ShiftIndexLast(pending) == Len(pending)

\* this.queue.shift(): the position of the element taken.
ShiftIndex(pending) == 1

\* Variant: the element is read (queue[0]) and left in the list.
RemoveNothing(pending, i) == pending

\* this.queue.shift(): the list afterwards.
Remove(pending, i) ==
  [k \in 1..(Len(pending) - 1) |-> IF k < i THEN pending[k] ELSE pending[k + 1]]

\* Variant: activeCount++ left out.
ProcessNoIncrement(q, pending, active) ==
  IF ProcessStarts(q, pending, active)
  THEN [queue |-> Remove(pending, ShiftIndex(pending)),
        activeCount |-> active,
        started |-> pending[ShiftIndex(pending)]]
  ELSE [queue |-> pending, activeCount |-> active, started |-> 0]

\* process() run on queue q whose fields are pending and active, up to its
\* await: the fields afterwards and the task it invoked (0 when none).
Process(q, pending, active) ==
  IF ProcessStarts(q, pending, active)
  THEN [queue |-> Remove(pending, ShiftIndex(pending)),
        activeCount |-> active + 1,
        started |-> pending[ShiftIndex(pending)]]
  ELSE [queue |-> pending, activeCount |-> active, started |-> 0]

\* The effect of one process() run on the per-task variables.
Invoke(r, pcNow) ==
  /\ pc' = [t \in Tasks |-> IF t = r.started THEN "running" ELSE pcNow[t]]
  /\ invoked' = [t \in Tasks |-> IF t = r.started THEN invoked[t] + 1 ELSE invoked[t]]

\* ------------------------------------------------------------------ actions
\* Variant: one counter shared by all queues (a static field).
AddSharedCounter(q, t) ==
  LET r == Process(q, Append(queue[q], t), activeCount[q]) IN
  /\ queue' = [queue EXCEPT ![q] = r.queue]
  /\ activeCount' = [o \in Lanes |-> r.activeCount]
  /\ Invoke(r, [pc EXCEPT ![t] = "pending"])
  /\ lane' = [lane EXCEPT ![t] = q]

\* add(task): push the wrapper, then process().
Add(q, t) ==
  LET r == Process(q, Append(queue[q], t), activeCount[q]) IN
  /\ queue' = [queue EXCEPT ![q] = r.queue]
  /\ activeCount' = [activeCount EXCEPT ![q] = r.activeCount]
  /\ Invoke(r, [pc EXCEPT ![t] = "pending"])
  /\ lane' = [lane EXCEPT ![t] = q]

\* geminiRequest(model, action, payload): route, then queue.add.  The action
\* string goes into the URL only and is left out.
GeminiRequest(model, payload) ==
  \E t \in Tasks :
    /\ pc[t] = "new"
    /\ \A u \in Tasks : u < t => pc[u] # "new"
    /\ Add(Route(model, payload), t)
    /\ dispatched' = [task |-> t, model |-> model, payload |-> payload]
    /\ UNCHANGED <<maxConcurrency, future>>

\* Variant: the resolvers are kept in one list per queue and the oldest one
\* is taken, whichever task completed.
SettleOldest(t, ok) ==
  /\ pc[t] = "running"
  /\ pc' = [pc EXCEPT ![t] = "settled"]
  /\ LET open == {u \in Tasks : lane[u] = lane[t] /\ future[u][1] = "pending" /\ pc[u] = "running"}
         u == CHOOSE x \in open : \A y \in open : x <= y IN
     future' = [future EXCEPT ![u] = IF ok THEN <<"resolved", t>> ELSE <<"rejected", t>>]
  /\ dispatched' = NoDispatch
  /\ UNCHANGED <<maxConcurrency, queue, activeCount, lane, invoked>>

\* The wrapper of t after `await task()`: resolve(result) or reject(error).
\* Task t yields the value t or fails with the error t.
Settle(t, ok) ==
  /\ pc[t] = "running"
  /\ pc' = [pc EXCEPT ![t] = "settled"]
  /\ future' = [future EXCEPT ![t] = IF ok THEN <<"resolved", t>> ELSE <<"rejected", t>>]
  /\ dispatched' = NoDispatch
  /\ UNCHANGED <<maxConcurrency, queue, activeCount, lane, invoked>>

\* Variant: no finally; a failure leaves process() at the await.
ResumeHaltsOnFailure(t) ==
  /\ pc[t] = "settled"
  /\ LET q == lane[t]
         r == IF future[t][1] = "rejected"
              THEN [queue |-> queue[q], activeCount |-> activeCount[q], started |-> 0]
              ELSE Process(q, queue[q], activeCount[q] - 1) IN
       /\ queue' = [queue EXCEPT ![q] = r.queue]
       /\ activeCount' = [activeCount EXCEPT ![q] = r.activeCount]
       /\ Invoke(r, [pc EXCEPT ![t] = "done"])
  /\ dispatched' = NoDispatch
  /\ UNCHANGED <<maxConcurrency, lane, future>>

\* Variant: the finally only decrements; process() is not called again.
ResumeNoPump(t) ==
  /\ pc[t] = "settled"
  /\ queue' = queue
  /\ activeCount' = [activeCount EXCEPT ![lane[t]] = activeCount[lane[t]] - 1]
  /\ pc' = [pc EXCEPT ![t] = "done"]
  /\ dispatched' = NoDispatch
  /\ UNCHANGED <<maxConcurrency, lane, invoked, future>>

\* process() after `await task()`: finally { activeCount--; process() }.
Resume(t) ==
  /\ pc[t] = "settled"
  /\ LET q == lane[t]
         r == Process(q, queue[q], activeCount[q] - 1) IN
       /\ queue' = [queue EXCEPT ![q] = r.queue]
       /\ activeCount' = [activeCount EXCEPT ![q] = r.activeCount]
       /\ Invoke(r, [pc EXCEPT ![t] = "done"])
  /\ dispatched' = NoDispatch
  /\ UNCHANGED <<maxConcurrency, lane, future>>

\* ------------------------------------------------ fetchWithRetry, the task
\* Statuses a response can carry: around each edge of the retry condition.
Statuses == {200, 301, 404, 428, 429, 430, 499, 500, 599, 600}

\* Bodies of a response: JSON with a non-empty error.message, JSON without
\* one, and text that is not JSON.
Bodies ==
  { [json |-> TRUE, message |-> {"quota exceeded"}],
    [json |-> TRUE, message |-> {}],
    [json |-> FALSE, message |-> {}] }

Event(e, v) == [e |-> e, v |-> v]
NotFetched == [kind |-> "none", status |-> 0, body |-> {}]
Pending == [state |-> "pending", error |-> "", status |-> 0, detail |-> ""]
Resolved == [state |-> "resolved", error |-> "", status |-> 0, detail |-> ""]
Rejected(error, status, detail) ==
  [state |-> "rejected", error |-> error, status |-> status, detail |-> detail]

\* Variant: every 4xx and 5xx status is retried.
RetryableAnyError(status) == status >= 400 /\ status <= 599

\* response.status === 429 || (response.status >= 500 && response.status <= 599)
Retryable(status) == status = 429 \/ (status >= 500 /\ status <= 599)

\* Variant: the delay grows by one base per attempt.
BackoffLinear(a) == (a + 1) * BackoffBase

\* Math.pow(2, attempt) * 2000
Backoff(a) == (2 ^ a) * BackoffBase

\* Variant: the last attempt is taken to be the one before maxRetries.
ExhaustedEarly(a, m) == a + 1 = m

\* attempt === maxRetries
Exhausted(a, m) == a = m

\* Variant: the loop is left one attempt early, for the fetch after it.
LoopEntryStrict(a, m) == IF a < m THEN "fetch" ELSE "lastFetch"

\* while (attempt <= maxRetries): the loop body, or the fetch after the loop.
LoopEntry(a, m) == IF a <= m THEN "fetch" ELSE "lastFetch"

\* response.ok
Ok(status) == status >= 200 /\ status <= 299

\* response.json(): a body is read once; reading it again throws a TypeError.
Json(r) ==
  IF r.bodyUsed
  THEN [threw |-> TRUE, error |-> "TypeError", response |-> r]
  ELSE [threw |-> ~r.body.json,
        error |-> IF r.body.json THEN "" ELSE "SyntaxError",
        response |-> [r EXCEPT !.bodyUsed = TRUE]]

\* response.text()
Text(r) ==
  IF r.bodyUsed
  THEN [threw |-> TRUE, error |-> "TypeError", response |-> r]
  ELSE [threw |-> FALSE, error |-> "", response |-> [r EXCEPT !.bodyUsed = TRUE]]

\* errorJson?.error?.message || JSON.stringify(errorJson)
ErrorDetail(body) ==
  IF body.message # {} THEN CHOOSE m \in body.message : TRUE ELSE "serialized JSON"

\* The task from the return of fetchWithRetry on: the !response.ok branch
\* with its nested try, or response.json().
TaskBody(r) ==
  LET j == Json(r) IN
  IF Ok(r.status)
  THEN IF j.threw THEN Rejected(j.error, 0, "") ELSE Resolved
  ELSE IF ~j.threw
       THEN Rejected("Error", r.status, ErrorDetail(r.body))
       ELSE LET t == Text(j.response) IN
            IF t.threw THEN Rejected(t.error, 0, "")
            ELSE Rejected("Error", r.status, "raw text")

\* `await fetch(url, options)` gives a response.
FetchResolves(status) ==
  /\ fpc \in {"fetch", "lastFetch"}
  /\ LET seen == Append(log, Event("response", status)) IN
     IF fpc = "fetch" /\ Retryable(status) /\ ~Exhausted(attempt, maxRetries)
     THEN /\ log' = Append(seen, Event("wait", Backoff(attempt)))
          /\ fpc' = "wait"
          /\ fetched' = fetched
     ELSE /\ log' = seen
          /\ fpc' = "returned"
          /\ fetched' = [kind |-> "response", status |-> status, body |-> {}]
  /\ UNCHANGED <<maxRetries, attempt, outcome>>

\* Variant: a failed request is retried like a 5xx response.
FetchRejectsRetried ==
  /\ fpc \in {"fetch", "lastFetch"}
  /\ LET seen == Append(log, Event("failure", 0)) IN
     IF fpc = "fetch" /\ ~Exhausted(attempt, maxRetries)
     THEN /\ log' = Append(seen, Event("wait", Backoff(attempt)))
          /\ fpc' = "wait"
          /\ UNCHANGED <<fetched, outcome>>
     ELSE /\ log' = seen
          /\ fpc' = "done"
          /\ fetched' = [kind |-> "failure", status |-> 0, body |-> {}]
          /\ outcome' = Rejected("TypeError", 0, "Failed to fetch")
  /\ UNCHANGED <<maxRetries, attempt>>

\* `await fetch(url, options)` throws (the transport failed): fetchWithRetry
\* has no try, and the catch of the task throws the error again.
FetchRejects ==
  /\ fpc \in {"fetch", "lastFetch"}
  /\ log' = Append(log, Event("failure", 0))
  /\ fpc' = "done"
  /\ fetched' = [kind |-> "failure", status |-> 0, body |-> {}]
  /\ outcome' = Rejected("TypeError", 0, "Failed to fetch")
  /\ UNCHANGED <<maxRetries, attempt>>

\* The setTimeout of the backoff fires: attempt++; continue.
TimerFires ==
  /\ fpc = "wait"
  /\ attempt' = attempt + 1
  /\ fpc' = LoopEntry(attempt + 1, maxRetries)
  /\ log' = Append(log, Event("request", 0))
  /\ UNCHANGED <<maxRetries, fetched, outcome>>

\* The task goes on with the response fetchWithRetry returned; its body is
\* one of Bodies.
ReadBody(body) ==
  /\ fpc = "returned"
  /\ outcome' = TaskBody([status |-> fetched.status, body |-> body, bodyUsed |-> FALSE])
  /\ fetched' = [fetched EXCEPT !.body = {body}]
  /\ fpc' = "done"
  /\ UNCHANGED <<maxRetries, attempt, log>>

\* ------------------------------------------------------- normalizeBaseUrl
HttpsPrefix == <<"h", "t", "t", "p", "s", ":", "/", "/">>
DefaultOrigin == <<"h", "t", "t", "p", "s", ":", "/", "/", "g", "e", "n", "e", "r", "a", "t", "i", "v", "e", "l", "a", "n", "g", "u", "a", "g", "e", ".", "g", "o", "o", "g", "l", "e", "a", "p", "i", "s", ".", "c", "o", "m">>
ApiPath == <<"/", "a", "p", "i">>
ExampleHost == <<"e", "x", "a", "m", "p", "l", "e", ".", "c", "o", "m">>

\* Hosts a user can configure: every string over HostAlphabet up to
\* MaxHostLen, and some longer ones.
HostAlphabet == {"/", " ", "a"}
HostsUpTo(n) == UNION {[1..k -> HostAlphabet] : k \in 0..n}
Hosts ==
  HostsUpTo(MaxHostLen)
    \cup {ApiPath, ApiPath \o <<"/">>, <<" ", "/", "a", "p", "i", " ">>, ExampleHost, ExampleHost \o <<"/", "/">>,
          <<"h", "t", "t", "p", ":", "/", "/", "a">>, <<"H", "T", "T", "P", "S", ":", "/", "/", "a", "/">>, <<"H", "t", "t", "p", "s", ":", "/", "/", "a">>, <<"h", "t", "t", "p", "s", ":", "/", "a">>, <<"f", "t", "p", ":", "/", "/", "a">>,
          <<"h", "t", "t", "p", ":", "/", "/">>, <<" ", "h", "t", "t", "p", ":", "/", "/", "a">>}

\* String.prototype.trim, over white space " ".
RECURSIVE TrimStart(_)
TrimStart(s) == IF s # <<>> /\ Head(s) = " " THEN TrimStart(Tail(s)) ELSE s

RECURSIVE TrimEnd(_)
TrimEnd(s) == IF s # <<>> /\ s[Len(s)] = " " THEN TrimEnd(SubSeq(s, 1, Len(s) - 1)) ELSE s

Trim(s) == TrimEnd(TrimStart(s))

\* replace(/\/+$/, "")
RECURSIVE StripTrailingSlashes(_)
StripTrailingSlashes(s) ==
  IF s # <<>> /\ s[Len(s)] = "/" THEN StripTrailingSlashes(SubSeq(s, 1, Len(s) - 1)) ELSE s

StartsWith(s, prefix) ==
  Len(s) >= Len(prefix) /\ SubSeq(s, 1, Len(prefix)) = prefix

\* The i flag of the pattern, over the letters it names.
ToLower(c) ==
  CASE c = "H" -> "h" [] c = "T" -> "t" [] c = "P" -> "p" [] c = "S" -> "s" [] OTHER -> c

Lower(s) == [i \in 1..Len(s) |-> ToLower(s[i])]

\* /^https?:\/\//i.test(url)
HasScheme(url) ==
  StartsWith(Lower(url), <<"h", "t", "t", "p", ":", "/", "/">>) \/ StartsWith(Lower(url), <<"h", "t", "t", "p", "s", ":", "/", "/">>)

NormalizeBaseUrlAbsolute(host) ==
  LET url == StripTrailingSlashes(Trim(host))
  IN  IF url = <<>> THEN DefaultOrigin
      ELSE IF ~HasScheme(url) THEN HttpsPrefix \o url
      ELSE url

NormalizeBaseUrlCaseSensitive(host) ==
  LET url == StripTrailingSlashes(Trim(host))
  IN  IF url = <<>> THEN DefaultOrigin
      ELSE IF StartsWith(url, <<"/">>) THEN url
      ELSE IF ~(StartsWith(url, <<"h", "t", "t", "p", ":", "/", "/">>) \/ StartsWith(url, HttpsPrefix))
           THEN HttpsPrefix \o url
      ELSE url

NormalizeBaseUrl(host) ==
  LET url == StripTrailingSlashes(Trim(host))
  IN  IF url = <<>> THEN DefaultOrigin
      ELSE IF StartsWith(url, <<"/">>) THEN url
      ELSE IF ~HasScheme(url) THEN HttpsPrefix \o url
      ELSE url

\* -------------------------------------------------------------- getConfig
\* A parsed JSON value: null, a number, or an object with any of the four
\* fields of ProxyConfig.
Value(t, apiHost, apiKey, textModel, imageModel) ==
  [t |-> t, apiHost |-> apiHost, apiKey |-> apiKey,
   textModel |-> textModel, imageModel |-> imageModel]

NullValue == Value("null", {}, {}, {}, {})
NumberValue == Value("number", {}, {}, {}, {})
DefaultConfig == Value("object", {<<>>}, {<<>>}, {TextModelDefault}, {ImageModelDefault})

Opt(S) == {{}} \cup {{x} : x \in S}
ApiKeys == {<<>>, <<"K">>}
Objects ==
  {Value("object", h, k, t, i) :
     h \in Opt(Hosts), k \in Opt(ApiKeys), t \in Opt({UserModel}), i \in Opt({UserModel})}

\* What localStorage holds under the key: nothing, the empty string, a text
\* that is not JSON, or the JSON text of a value.
Item(item, value) == [item |-> item, value |-> value]
StoredItems ==
  {Item("absent", NullValue), Item("empty", NullValue), Item("garbage", NullValue)}
    \cup {Item("json", v) : v \in {NullValue, NumberValue} \cup Objects}

\* JSON.parse
Parse(saved) == [threw |-> saved.item # "json", value |-> saved.value]

GetConfigNoFallback(st) ==
  IF st.item = "json" THEN st.value ELSE NullValue

GetConfig(st) ==
  IF st.item \in {"absent", "empty"}
  THEN DefaultConfig
  ELSE LET parsed == Parse(st)
       IN  IF parsed.threw THEN DefaultConfig ELSE parsed.value

\* a || b, for an optional string a
OrElse(a, b) == IF a = {} \/ a = {<<>>} THEN b ELSE CHOOSE x \in a : TRUE

\* ------------------------------------------------------ public operations
Ops == {"generateStoryboardFrame", "editFrame", "refineImageClarity",
        "analyzeAsset", "testConnection"}
EditModelDefault == <<"g", "e", "m", "i", "n", "i", "-", "2", ".", "5", "-", "f", "l", "a", "s", "h", "-", "i", "m", "a", "g", "e">>
TestModel == <<"g", "e", "m", "i", "n", "i", "-", "2", ".", "0", "-", "f", "l", "a", "s", "h">>
ModelsPath == <<"/", "v", "1", "b", "e", "t", "a", "/", "m", "o", "d", "e", "l", "s", "/">>
Action == <<"g", "e", "n", "e", "r", "a", "t", "e", "C", "o", "n", "t", "e", "n", "t">>
KeyParam == <<"?", "k", "e", "y", "=">>

ModelField(o) == IF o = "analyzeAsset" THEN "textModel" ELSE "imageModel"

ModelDefault(o) ==
  CASE o = "editFrame" -> EditModelDefault
    [] o = "analyzeAsset" -> TextModelDefault
    [] OTHER -> ImageModelDefault

PayloadOf(o) ==
  IF o \in {"generateStoryboardFrame", "refineImageClarity"}
  THEN [generationConfig |-> {[imageConfig |-> {[imageSize |-> "1K"]}]}]
  ELSE [generationConfig |-> {}]

Url(baseUrl, m, apiKey) ==
  baseUrl \o ModelsPath \o m \o <<":">> \o Action \o KeyParam \o apiKey

NoRequest == [url |-> <<>>, apiKey |-> <<>>, queue |-> "none"]
NoData == [candidates |-> {}]
NoResult == [kind |-> "none", value |-> <<>>]

DispatchingCached(m, payload) ==
  LET cfg == config
      apiKey == OrElse(cfg.apiKey, envKey)
  IN  /\ config' = cfg
      /\ IF cfg.t = "null"
         THEN /\ opc' = "raised"
              /\ request' = NoRequest
         ELSE /\ opc' = "dispatched"
              /\ request' = [url |-> Url(NormalizeBaseUrl(OrElse(cfg.apiHost, <<>>)), m, apiKey),
                             apiKey |-> apiKey,
                             queue |-> Route(m, payload)]

\* geminiRequest(m, "generateContent", payload) up to queue.add: the
\* configuration is read, the request built and the queue chosen.  A
\* property read on null raises a TypeError.
Dispatching(m, payload) ==
  LET cfg == GetConfig(stored)
      apiKey == OrElse(cfg.apiKey, envKey)
  IN  /\ config' = cfg
      /\ IF cfg.t = "null"
         THEN /\ opc' = "raised"
              /\ request' = NoRequest
         ELSE /\ opc' = "dispatched"
              /\ request' = [url |-> Url(NormalizeBaseUrl(OrElse(cfg.apiHost, <<>>)), m, apiKey),
                             apiKey |-> apiKey,
                             queue |-> Route(m, payload)]

\* A public operation is called and runs to its first await.  All but
\* testConnection read the model id from the configuration (destructuring
\* null raises a TypeError) and go on to build the payload; testConnection
\* calls geminiRequest at once.
Call(o) ==
  /\ opc = "idle"
  /\ op' = o
  /\ IF o = "testConnection"
     THEN /\ opModel' = TestModel
          /\ Dispatching(TestModel, PayloadOf(o))
     ELSE LET cfg == GetConfig(stored)
          IN  /\ config' = cfg
              /\ IF cfg.t = "null"
                 THEN opc' = "raised" /\ opModel' = <<>>
                 ELSE opc' = "prepared" /\ opModel' = OrElse(cfg[ModelField(o)], ModelDefault(o))
              /\ request' = NoRequest
  /\ UNCHANGED <<stored, envKey>>

\* The payload is built: the operation calls geminiRequest.
Dispatch ==
  /\ opc = "prepared"
  /\ Dispatching(opModel, PayloadOf(op))
  /\ UNCHANGED <<stored, envKey, op, opModel>>

\* ---------------------------------------------------------------- settings
\* What the settings form can hold when it is saved.
FormHosts == {<<" ", "/", "a", "p", "i", " ">>, ExampleHost}
FormModels == {[textModel |-> {TextModelDefault}, imageModel |-> {ImageModelDefault}],
               [textModel |-> {UserModel}, imageModel |-> {UserModel}]}

\* handleSave of the settings dialog: host and key are trimmed, the record is
\* written as JSON under the key.
HandleSave(apiHost, apiKey, models) ==
  /\ stored' = Item("json", Value("object", {Trim(apiHost)}, {Trim(apiKey)},
                                   models.textModel, models.imageModel))
  /\ stored' # stored
  /\ UNCHANGED <<envKey, op, opc, config, opModel, request>>

\* The operation at hand is followed no further (queued, in flight or
\* settled, it has no part in what the next one builds); its request is
\* kept for comparison.
Leave ==
  /\ opc \in {"dispatched", "raised"}
  /\ opc' = "idle"
  /\ previous' = request
  /\ UNCHANGED <<stored, envKey, op, config, opModel, request>>

\* ------------------------------------------------- the task of a dispatch
\* Variant: the task builds its request when it calls fetch, from the
\* settings kept then.
CapturedRebuilt ==
  LET cfg == GetConfig(stored)
      apiKey == OrElse(cfg.apiKey, envKey)
  IN  [url |-> Url(NormalizeBaseUrl(OrElse(cfg.apiHost, <<>>)), opModel, apiKey),
       apiKey |-> apiKey,
       queue |-> request.queue]

\* The url and options the closure passed to queue.add holds: the constants
\* geminiRequest built before it called queue.add.
Captured == request

\* What one call of fetch(url, options) leaves in `sent`.
Fetch == [request |-> Captured, changed |-> GetConfig(stored) # config]

\* queue.add(...) of the dispatch: the task is in the pending list (when the
\* lane has a free slot it is started in the same turn, which is Enqueue and
\* StartTask with nothing in between).
Enqueue ==
  /\ opc = "dispatched"
  /\ wire = "none"
  /\ wire' = "pending"
  /\ UNCHANGED sent

\* process() starts the task: fetchWithRetry(url, options) makes its first
\* request.
StartTask ==
  /\ wire = "pending"
  /\ wire' = "fetch"
  /\ sent' = Append(sent, Fetch)

\* A transient response, the backoff wait, and the next turn of the loop:
\* fetch(url, options) again, at most maxRetries times.
RetryTask ==
  /\ wire = "fetch"
  /\ Len(sent) <= DefaultMaxRetries
  /\ sent' = Append(sent, Fetch)
  /\ UNCHANGED wire

\* fetchWithRetry returns or throws: the task is over.
SettleTask ==
  /\ wire = "fetch"
  /\ wire' = "settled"
  /\ UNCHANGED sent

\* ----------------------------------------------------------------- editor
\* Node ids are drawn at random and are never drawn twice; object URLs are
\* numbered in the order of their creation, 0 standing for no imageUrl.
NodeIds == 1..MaxNodes
NoUrl == 0
Outcomes == {"image", "absent", "failure"}

\* newNode.data of addNode, as far as the graph and the image go.
NewNode(parentIds, imageUrl) ==
  [parentIds |-> parentIds, connectedTo |-> {}, imageUrl |-> imageUrl, isGenerating |-> FALSE]

\* imageUrl?.startsWith('blob:') and URL.revokeObjectURL(imageUrl)
Revoke(imageUrl) == IF imageUrl # NoUrl THEN revoked \cup {imageUrl} ELSE revoked

\* nds.map(n => n.id === id ? { ...n, data: { ...n.data, isGenerating } } : n)
SetGenerating(id, flag) ==
  [n \in DOMAIN nodes |-> IF n = id THEN [nodes[n] EXCEPT !.isGenerating = flag] ELSE nodes[n]]

\* nds.map(n => n.id === id ? { ...n, data: { ...n.data, imageUrl: result,
\* isGenerating: false } } : n)
SetImage(id, imageUrl) ==
  [n \in DOMAIN nodes |->
     IF n = id THEN [nodes[n] EXCEPT !.imageUrl = imageUrl, !.isGenerating = FALSE] ELSE nodes[n]]

\* addNode(x, y, parentIds, initialImageUrl): from the toolbar (no parent),
\* from handleMultiExtend (the selected nodes) or from a slice of a node's
\* image (that node as the parent, a new object URL of the slice).
AddNode(parentIds, fromSlice) ==
  /\ ids < MaxNodes
  /\ parentIds \subseteq DOMAIN nodes
  /\ fromSlice =>
       /\ created < MaxUrls
       /\ \E p \in parentIds :
            /\ parentIds = {p}
            /\ nodes[p].imageUrl # NoUrl
            /\ nodes[p].imageUrl \notin revoked
  /\ LET id == ids + 1
         imageUrl == IF fromSlice THEN created + 1 ELSE NoUrl
     IN  /\ nodes' = [n \in DOMAIN nodes \cup {id} |->
                        IF n = id THEN NewNode(parentIds, imageUrl)
                        ELSE IF n \in parentIds
                             THEN [nodes[n] EXCEPT !.connectedTo = @ \cup {id}]
                             ELSE nodes[n]]
         /\ edges' = edges \cup {<<p, id>> : p \in parentIds}
         /\ created' = IF fromSlice THEN created + 1 ELSE created
         /\ ids' = id
  /\ UNCHANGED <<revoked, calls>>

\* data.onDelete(nodeId): the node's object URL is revoked, the node and its
\* edges are filtered out.
OnDelete(id) ==
  /\ id \in DOMAIN nodes
  /\ revoked' = Revoke(nodes[id].imageUrl)
  /\ nodes' = [n \in DOMAIN nodes \ {id} |-> nodes[n]]
  /\ edges' = {e \in edges : e[1] # id /\ e[2] # id}
  /\ UNCHANGED <<created, ids, calls>>

\* onConnect(params): the edge is added, the target gets the source as a
\* parent and the source the target in connectedTo.
OnConnect(source, target) ==
  /\ source \in DOMAIN nodes /\ target \in DOMAIN nodes
  /\ source # target
  /\ edges' = edges \cup {<<source, target>>}
  /\ nodes' = [n \in DOMAIN nodes |->
                IF n = target THEN [nodes[n] EXCEPT !.parentIds = @ \cup {source}]
                ELSE IF n = source THEN [nodes[n] EXCEPT !.connectedTo = @ \cup {target}]
                ELSE nodes[n]]
  /\ UNCHANGED <<revoked, created, ids, calls>>

\* handleGenerate(id) up to `await generateStoryboardFrame(...)`: the flag is
\* set and the node's object URL is revoked.  The button that calls it is
\* disabled while the flag is set.
HandleGenerate(id) ==
  /\ id \in DOMAIN nodes
  /\ ~nodes[id].isGenerating
  /\ Cardinality(calls) < MaxCalls
  /\ nodes' = SetGenerating(id, TRUE)
  /\ revoked' = Revoke(nodes[id].imageUrl)
  /\ calls' = calls \cup {[handler |-> "handleGenerate", id |-> id, imageUrl |-> nodes[id].imageUrl]}
  /\ UNCHANGED <<edges, created, ids>>

\* generateStoryboardFrame settles: an object URL, undefined (which the
\* handler throws on), or an error.
GenerateSettles(c, out) ==
  /\ c \in calls /\ c.handler = "handleGenerate"
  /\ calls' = calls \ {c}
  /\ IF out = "image"
     THEN /\ created < MaxUrls
          /\ created' = created + 1
          /\ nodes' = SetImage(c.id, created + 1)
     ELSE /\ nodes' = SetGenerating(c.id, FALSE)
          /\ UNCHANGED created
  /\ UNCHANGED <<edges, revoked, ids>>

\* handleEditSave(prompt, mask) for the node of the editor, up to
\* `await editFrame(...)`: the node has an image; the flag is set.
HandleEditSave(id) ==
  /\ id \in DOMAIN nodes
  /\ nodes[id].imageUrl # NoUrl
  /\ Cardinality(calls) < MaxCalls
  /\ [handler |-> "handleEditSave", id |-> id, imageUrl |-> nodes[id].imageUrl] \notin calls
  /\ nodes' = SetGenerating(id, TRUE)
  /\ calls' = calls \cup {[handler |-> "handleEditSave", id |-> id, imageUrl |-> nodes[id].imageUrl]}
  /\ UNCHANGED <<edges, revoked, created, ids>>

\* editFrame settles: with an object URL the one the handler read is revoked
\* and the new one stored; with undefined nothing is done; an error clears
\* the flag.
EditSettles(c, out) ==
  /\ c \in calls /\ c.handler = "handleEditSave"
  /\ calls' = calls \ {c}
  /\ CASE out = "image" ->
            /\ created < MaxUrls
            /\ created' = created + 1
            /\ revoked' = Revoke(c.imageUrl)
            /\ nodes' = SetImage(c.id, created + 1)
       [] out = "absent" -> UNCHANGED <<nodes, revoked, created>>
       [] OTHER ->
            /\ nodes' = SetGenerating(c.id, FALSE)
            /\ UNCHANGED <<revoked, created>>
  /\ UNCHANGED <<edges, ids>>

\* ---------------------------------------------------------------- results
\* A response of generateContent as the operations read it: candidates, the
\* content of each, its parts; a part has a text, inline data, both or
\* neither.  Every level can be missing.
Base64s == {<<"b", "1">>, <<"b", "2">>}
Texts == {<<"a", " ", "c", "a", "r">>}
InlineDatas == {[data |-> {}]} \cup {[data |-> {b}] : b \in Base64s}
Parts == [text : Opt(Texts), inlineData : Opt(InlineDatas)]
PartLists(n) == UNION {[1..k -> Parts] : k \in 0..n}
Candidate(parts) == [content |-> {[parts |-> {parts}]}]
Candidates ==
  {[content |-> {}], [content |-> {[parts |-> {}]}]}
    \cup {Candidate(ps) : ps \in PartLists(MaxParts)}
\* Candidates after the first.
OtherCandidates ==
  {Candidate(<<[text |-> {}, inlineData |-> {[data |-> {<<"b", "2">>}]}]>>),
   Candidate(<<[text |-> {<<"a", " ", "c", "a", "r">>}, inlineData |-> {}]>>)}
Datas ==
  {[candidates |-> {}], [candidates |-> {<<>>}]}
    \cup {[candidates |-> {<<c>>}] : c \in Candidates}
    \cup {[candidates |-> {<<c, d>>}] : c \in Candidates, d \in OtherCandidates}

Undefined == [kind |-> "undefined", value |-> <<>>]
Placeholder == <<"A", "s", "s", "e", "t">>

\* data.candidates?.[0]?.content?.parts
FirstParts(d) ==
  IF d.candidates = {} THEN {}
  ELSE LET cs == CHOOSE x \in d.candidates : TRUE
       IN  IF cs = <<>> \/ cs[1].content = {} THEN {}
           ELSE (CHOOSE x \in cs[1].content : TRUE).parts

\* a || [], for an optional list a
OrEmpty(a) == IF a = {} THEN <<>> ELSE CHOOSE x \in a : TRUE

\* part.inlineData?.data
InlineOf(part) ==
  IF part.inlineData = {} THEN {} ELSE (CHOOSE x \in part.inlineData : TRUE).data

\* base64ToBlobUrl(b64): the address of a blob made of the decoded bytes.
Base64ToBlobUrl(b64) == [kind |-> "blob", value |-> b64]

ScanLast(parts) ==
  LET hits == {i \in 1..Len(parts) : OrElse(InlineOf(parts[i]), <<>>) # <<>>}
  IN  IF hits = {} THEN Undefined
      ELSE Base64ToBlobUrl(OrElse(InlineOf(parts[CHOOSE i \in hits : \A j \in hits : j <= i]), <<>>))

\* for (const part of parts) { ... if (b64) return base64ToBlobUrl(b64) }
\* return undefined
RECURSIVE Scan(_)
Scan(parts) ==
  IF parts = <<>> THEN Undefined
  ELSE LET b64 == OrElse(InlineOf(Head(parts)), <<>>)
       IN  IF b64 # <<>> THEN Base64ToBlobUrl(b64) ELSE Scan(Tail(parts))

\* data.candidates?.[0]?.content?.parts?.[0]?.text || "Asset"
FirstText(d) ==
  LET parts == FirstParts(d)
  IN  [kind |-> "string",
       value |-> IF parts = {} \/ OrEmpty(parts) = <<>> THEN Placeholder
                 ELSE OrElse(OrEmpty(parts)[1].text, Placeholder)]

RECURSIVE AllParts(_)
AllParts(cs) ==
  IF cs = <<>> THEN <<>>
  ELSE (IF Head(cs).content = {} THEN <<>>
        ELSE OrEmpty((CHOOSE x \in Head(cs).content : TRUE).parts)) \o AllParts(Tail(cs))

ExtractAnyCandidate(o, d) ==
  CASE o = "analyzeAsset" -> FirstText(d)
    [] o = "testConnection" -> [kind |-> "true", value |-> <<>>]
    [] OTHER -> Scan(AllParts(OrEmpty(d.candidates)))

\* What the operation returns from the JSON of a successful dispatch.
Extract(o, d) ==
  CASE o = "analyzeAsset" -> FirstText(d)
    [] o = "testConnection" -> [kind |-> "true", value |-> <<>>]
    [] OTHER -> Scan(OrEmpty(FirstParts(d)))

\* geminiRequest resolved with d: the operation resumes and returns.
Respond(d) ==
  /\ opc = "dispatched"
  /\ opc' = "returned"
  /\ data' = d
  /\ result' = Extract(op, d)
  /\ UNCHANGED <<stored, envKey, op, config, opModel, request, previous>>

\* geminiRequest rejected: the operation resumes and raises what it got.
Reject ==
  /\ opc = "dispatched"
  /\ opc' = "raised"
  /\ UNCHANGED <<stored, envKey, op, config, opModel, request, sessionVars>>

\* ------------------------------------------------------------------ lanes
\* process() on a lane of len pending wrappers and counter count, up to its
\* await: the two afterwards and the number of tasks it invoked.
ProcessLane(q, len, count) ==
  IF ~(count >= maxConcurrency[q] \/ len = 0)
  THEN [len |-> len - 1, activeCount |-> count + 1, started |-> 1]
  ELSE [len |-> len, activeCount |-> count, started |-> 0]

\* geminiRequest on lane q: queue.add pushes the wrapper and calls process().
\* A task that is invoked calls fetchWithRetry, which sends its request.
AddLane(q) ==
  /\ laneLen[q] < MaxPending
  /\ \E m \in ModelIds, payload \in Payloads : q = Route(m, payload)
  /\ LET r == ProcessLane(q, laneLen[q] + 1, laneActive[q]) IN
       /\ laneLen' = [laneLen EXCEPT ![q] = r.len]
       /\ laneActive' = [laneActive EXCEPT ![q] = r.activeCount]
       /\ laneFetching' = [laneFetching EXCEPT ![q] = @ + r.started]
  /\ UNCHANGED <<laneWaiting, laneSettled>>

\* Variant: the task gives its slot back for the time of the backoff wait.
WaitLaneReleasing(q, status) ==
  /\ laneFetching[q] > 0
  /\ Retryable(status)
  /\ LET r == ProcessLane(q, laneLen[q], laneActive[q] - 1) IN
       /\ laneLen' = [laneLen EXCEPT ![q] = r.len]
       /\ laneActive' = [laneActive EXCEPT ![q] = r.activeCount]
       /\ laneFetching' = [laneFetching EXCEPT ![q] = @ - 1 + r.started]
  /\ laneWaiting' = [laneWaiting EXCEPT ![q] = @ + 1]
  /\ UNCHANGED laneSettled

\* A request of a task of q is answered 429 or 5xx with retries left:
\* fetchWithRetry awaits the backoff timer.  The tasks being alike, the
\* attempts of each are not counted: a task may wait any number of times.
WaitLane(q, status) ==
  /\ laneFetching[q] > 0
  /\ Retryable(status)
  /\ laneFetching' = [laneFetching EXCEPT ![q] = @ - 1]
  /\ laneWaiting' = [laneWaiting EXCEPT ![q] = @ + 1]
  /\ UNCHANGED <<laneLen, laneActive, laneSettled>>

\* The backoff timer of a task of q fires: the request is sent again.
RetryLane(q) ==
  /\ laneWaiting[q] > 0
  /\ laneWaiting' = [laneWaiting EXCEPT ![q] = @ - 1]
  /\ laneFetching' = [laneFetching EXCEPT ![q] = @ + 1]
  /\ UNCHANGED <<laneLen, laneActive, laneSettled>>

\* fetchWithRetry of a task of q returns or throws; the task reads the
\* response and the wrapper settles the future.
SettleLane(q) ==
  /\ laneFetching[q] > 0
  /\ laneFetching' = [laneFetching EXCEPT ![q] = @ - 1]
  /\ laneSettled' = [laneSettled EXCEPT ![q] = @ + 1]
  /\ UNCHANGED <<laneLen, laneActive, laneWaiting>>

\* process() after `await task()`: finally { activeCount--; process() }.
ResumeLane(q) ==
  /\ laneSettled[q] > 0
  /\ LET r == ProcessLane(q, laneLen[q], laneActive[q] - 1) IN
       /\ laneLen' = [laneLen EXCEPT ![q] = r.len]
       /\ laneActive' = [laneActive EXCEPT ![q] = r.activeCount]
       /\ laneFetching' = [laneFetching EXCEPT ![q] = @ + r.started]
  /\ laneSettled' = [laneSettled EXCEPT ![q] = @ - 1]
  /\ UNCHANGED laneWaiting

\* ------------------------------------------------------------ specification
\* No call of the task is followed.
CallIdle ==
  /\ maxRetries = DefaultMaxRetries
  /\ attempt = 0
  /\ fpc = "idle"
  /\ log = <<>>
  /\ fetched = NotFetched
  /\ outcome = Pending

\* No public operation is followed.
ConfigIdle ==
  /\ stored = Item("absent", NullValue)
  /\ envKey = <<>>
  /\ op = "none"
  /\ opc = "idle"
  /\ config = DefaultConfig
  /\ opModel = <<>>
  /\ request = NoRequest

SessionIdle ==
  /\ previous = NoRequest
  /\ data = NoData
  /\ result = NoResult

LanesIdle ==
  /\ laneLen = [q \in Lanes |-> 0]
  /\ laneActive = [q \in Lanes |-> 0]
  /\ laneFetching = [q \in Lanes |-> 0]
  /\ laneWaiting = [q \in Lanes |-> 0]
  /\ laneSettled = [q \in Lanes |-> 0]

WireIdle ==
  /\ wire = "none"
  /\ sent = <<>>

\* The editor before its first effect: no node, no edge, no object URL.
EditorIdle ==
  /\ nodes = <<>>
  /\ edges = {}
  /\ revoked = {}
  /\ created = 0
  /\ ids = 0
  /\ calls = {}

InitFields ==
  /\ queue = [q \in Lanes |-> <<>>]
  /\ activeCount = [q \in Lanes |-> 0]
  /\ pc = [t \in Tasks |-> "new"]
  /\ lane = [t \in Tasks |-> "none"]
  /\ invoked = [t \in Tasks |-> 0]
  /\ future = [t \in Tasks |-> <<"pending", 0>>]
  /\ dispatched = NoDispatch

\* The program: imageQueue and textQueue as the module constructs them.
Init ==
  /\ maxConcurrency = ProgramConcurrency
  /\ InitFields
  /\ CallIdle
  /\ ConfigIdle
  /\ SessionIdle
  /\ LanesIdle
  /\ WireIdle
  /\ EditorIdle

\* The class: two RequestQueue objects constructed with any small bound, or
\* with the program's bounds.
InitN ==
  /\ maxConcurrency \in {[q \in Lanes |-> n] : n \in 1..MaxN} \cup {ProgramConcurrency}
  /\ InitFields
  /\ CallIdle
  /\ ConfigIdle
  /\ SessionIdle
  /\ LanesIdle
  /\ WireIdle
  /\ EditorIdle

Next ==
  \/ (\E model \in ModelIds, payload \in Payloads : GeminiRequest(model, payload))
       /\ UNCHANGED <<wireVars, editorVars, laneVars, callVars, configVars, sessionVars>>
  \/ (\E t \in Tasks, ok \in BOOLEAN : Settle(t, ok)) /\ UNCHANGED <<wireVars, editorVars, laneVars, callVars, configVars, sessionVars>>
  \/ (\E t \in Tasks : Resume(t)) /\ UNCHANGED <<wireVars, editorVars, laneVars, callVars, configVars, sessionVars>>

Spec == Init /\ [][Next]_vars

SpecN == InitN /\ [][Next]_vars

\* Every invoked task completes at some time (the premise of the drain
\* property), and a continuation that is ready is run by the event loop.
Fairness ==
  \A t \in Tasks :
    /\ WF_vars((\E ok \in BOOLEAN : Settle(t, ok)) /\ UNCHANGED <<wireVars, editorVars, laneVars, callVars, configVars, sessionVars>>)
    /\ WF_vars(Resume(t) /\ UNCHANGED <<wireVars, editorVars, laneVars, callVars, configVars, sessionVars>>)

FairSpec == Init /\ [][Next]_vars /\ Fairness

\* One call of fetchWithRetry by the task, with any maxRetries up to the
\* bound: the first request is out.
InitCall ==
  /\ maxConcurrency = ProgramConcurrency
  /\ InitFields
  /\ maxRetries \in 0..MaxRetriesBound
  /\ attempt = 0
  /\ fpc = LoopEntry(0, maxRetries)
  /\ log = <<Event("request", 0)>>
  /\ fetched = NotFetched
  /\ outcome = Pending
  /\ ConfigIdle
  /\ SessionIdle
  /\ LanesIdle
  /\ WireIdle
  /\ EditorIdle

NextCall ==
  \/ (\E status \in Statuses : FetchResolves(status)) /\ UNCHANGED <<wireVars, editorVars, laneVars, queueVars, configVars, sessionVars>>
  \/ FetchRejects /\ UNCHANGED <<wireVars, editorVars, laneVars, queueVars, configVars, sessionVars>>
  \/ TimerFires /\ UNCHANGED <<wireVars, editorVars, laneVars, queueVars, configVars, sessionVars>>
  \/ (\E body \in Bodies : ReadBody(body)) /\ UNCHANGED <<wireVars, editorVars, laneVars, queueVars, configVars, sessionVars>>

SpecCall == InitCall /\ [][NextCall]_vars

\* Every request of the call terminates (with a response or a failure) and
\* every timer of a backoff fires.
FairnessCall ==
  /\ WF_vars(((\E status \in Statuses : FetchResolves(status)) \/ FetchRejects)
               /\ UNCHANGED <<wireVars, editorVars, laneVars, queueVars, configVars, sessionVars>>)
  /\ WF_vars(TimerFires /\ UNCHANGED <<wireVars, editorVars, laneVars, queueVars, configVars, sessionVars>>)

FairSpecCall == InitCall /\ [][NextCall]_vars /\ FairnessCall

\* One public operation, with anything kept under the settings key and
\* either build of the bundle (API_KEY defined or not).
InitConfig ==
  /\ maxConcurrency = ProgramConcurrency
  /\ InitFields
  /\ CallIdle
  /\ stored \in StoredItems
  /\ envKey \in {<<>>, <<"E">>}
  /\ op = "none"
  /\ opc = "idle"
  /\ config = DefaultConfig
  /\ opModel = <<>>
  /\ request = NoRequest
  /\ SessionIdle
  /\ LanesIdle
  /\ WireIdle
  /\ EditorIdle

NextConfig ==
  \/ (\E o \in Ops : Call(o)) /\ UNCHANGED <<wireVars, editorVars, laneVars, queueVars, callVars, sessionVars>>
  \/ Dispatch /\ UNCHANGED <<wireVars, editorVars, laneVars, queueVars, callVars, sessionVars>>

SpecConfig == InitConfig /\ [][NextConfig]_vars

\* Public operations one after another while the settings dialog saves:
\* nothing is stored at first, or a record the dialog saved.
InitSettings ==
  /\ maxConcurrency = ProgramConcurrency
  /\ InitFields
  /\ CallIdle
  /\ stored = Item("absent", NullValue)
  /\ envKey \in {<<>>, <<"E">>}
  /\ op = "none"
  /\ opc = "idle"
  /\ config = DefaultConfig
  /\ opModel = <<>>
  /\ request = NoRequest
  /\ SessionIdle
  /\ LanesIdle
  /\ WireIdle
  /\ EditorIdle

NextSettings ==
  \/ (\E o \in Ops : Call(o)) /\ UNCHANGED <<wireVars, editorVars, laneVars, queueVars, callVars, sessionVars>>
  \/ Dispatch /\ UNCHANGED <<wireVars, editorVars, laneVars, queueVars, callVars, sessionVars>>
  \/ (\E h \in FormHosts, k \in ApiKeys, m \in FormModels : HandleSave(h, k, m))
       /\ UNCHANGED <<wireVars, editorVars, laneVars, queueVars, callVars, sessionVars>>
  \/ Leave /\ UNCHANGED <<wireVars, editorVars, laneVars, queueVars, callVars, data, result>>

SpecSettings == InitSettings /\ [][NextSettings]_vars

\* One public operation from its call to the end of its task, while the
\* settings dialog saves.
InitWire == InitSettings

NextWire ==
  \/ (\E o \in Ops : Call(o)) /\ UNCHANGED <<wireVars, editorVars, laneVars, queueVars, callVars, sessionVars>>
  \/ Dispatch /\ UNCHANGED <<wireVars, editorVars, laneVars, queueVars, callVars, sessionVars>>
  \/ (\E h \in FormHosts, k \in ApiKeys, m \in FormModels : HandleSave(h, k, m))
       /\ UNCHANGED <<wireVars, editorVars, laneVars, queueVars, callVars, sessionVars>>
  \/ Enqueue /\ UNCHANGED <<editorVars, laneVars, queueVars, callVars, configVars, sessionVars>>
  \/ StartTask /\ UNCHANGED <<editorVars, laneVars, queueVars, callVars, configVars, sessionVars>>
  \/ RetryTask /\ UNCHANGED <<editorVars, laneVars, queueVars, callVars, configVars, sessionVars>>
  \/ SettleTask /\ UNCHANGED <<editorVars, laneVars, queueVars, callVars, configVars, sessionVars>>

SpecWire == InitWire /\ [][NextWire]_vars

\* The editor from its mount on: nodes are added, connected and deleted,
\* frames are generated and edited, the service answering in any way.
InitEditor == Init

NextEditor ==
  \/ (\E parentIds \in SUBSET NodeIds, fromSlice \in BOOLEAN : AddNode(parentIds, fromSlice))
       /\ UNCHANGED <<wireVars, laneVars, queueVars, callVars, configVars, sessionVars>>
  \/ (\E id \in NodeIds : OnDelete(id))
       /\ UNCHANGED <<wireVars, laneVars, queueVars, callVars, configVars, sessionVars>>
  \/ (\E source \in NodeIds, target \in NodeIds : OnConnect(source, target))
       /\ UNCHANGED <<wireVars, laneVars, queueVars, callVars, configVars, sessionVars>>
  \/ (\E id \in NodeIds : HandleGenerate(id))
       /\ UNCHANGED <<wireVars, laneVars, queueVars, callVars, configVars, sessionVars>>
  \/ (\E c \in calls, out \in Outcomes : GenerateSettles(c, out))
       /\ UNCHANGED <<wireVars, laneVars, queueVars, callVars, configVars, sessionVars>>
  \/ (\E id \in NodeIds : HandleEditSave(id))
       /\ UNCHANGED <<wireVars, laneVars, queueVars, callVars, configVars, sessionVars>>
  \/ (\E c \in calls, out \in Outcomes : EditSettles(c, out))
       /\ UNCHANGED <<wireVars, laneVars, queueVars, callVars, configVars, sessionVars>>

SpecEditor == InitEditor /\ [][NextEditor]_vars

\* One public operation from its call to its return, nothing being kept
\* under the settings key, with any response.
InitResult ==
  /\ maxConcurrency = ProgramConcurrency
  /\ InitFields
  /\ CallIdle
  /\ ConfigIdle
  /\ SessionIdle
  /\ LanesIdle
  /\ WireIdle
  /\ EditorIdle

NextResult ==
  \/ (\E o \in Ops : Call(o)) /\ UNCHANGED <<wireVars, editorVars, laneVars, queueVars, callVars, sessionVars>>
  \/ Dispatch /\ UNCHANGED <<wireVars, editorVars, laneVars, queueVars, callVars, sessionVars>>
  \/ (\E d \in Datas : Respond(d)) /\ UNCHANGED <<wireVars, editorVars, laneVars, queueVars, callVars>>
  \/ Reject /\ UNCHANGED <<wireVars, editorVars, laneVars, queueVars, callVars>>

SpecResult == InitResult /\ [][NextResult]_vars

\* The two lanes of the program under any number of geminiRequest calls,
\* each task retrying as fetchWithRetry does.
InitLanes == Init

NextLanes ==
  \/ (\E q \in Lanes : AddLane(q))
       /\ UNCHANGED <<wireVars, editorVars, queueVars, callVars, configVars, sessionVars>>
  \/ (\E q \in Lanes, status \in Statuses : WaitLane(q, status))
       /\ UNCHANGED <<wireVars, editorVars, queueVars, callVars, configVars, sessionVars>>
  \/ (\E q \in Lanes : RetryLane(q))
       /\ UNCHANGED <<wireVars, editorVars, queueVars, callVars, configVars, sessionVars>>
  \/ (\E q \in Lanes : SettleLane(q))
       /\ UNCHANGED <<wireVars, editorVars, queueVars, callVars, configVars, sessionVars>>
  \/ (\E q \in Lanes : ResumeLane(q))
       /\ UNCHANGED <<wireVars, editorVars, queueVars, callVars, configVars, sessionVars>>

SpecLanes == InitLanes /\ [][NextLanes]_vars

\* ------------------------------------------------------------ vocabulary
Added(t) == pc[t] # "new"
Started(t) == invoked[t] > 0
Completed(t) == future[t][1] \in {"resolved", "rejected"}
Failed(t) == future[t][1] = "rejected"
\* t is invoked in this step.
StartStep(t) == pc[t] \in {"new", "pending"} /\ pc'[t] = "running"
\* t is passed to add in this step.
AddStep(t) == pc[t] = "new" /\ pc'[t] # "new"
\* The finally of the process() run that invoked t runs in this step.
ResumeStep(t) == pc[t] = "settled" /\ pc'[t] = "done"
InQueue(t, q) == \E i \in 1..Len(queue[q]) : queue[q][i] = t
SameLane(a, b) == lane[a] \in Lanes /\ lane[a] = lane[b]

\* ------------------------------------------------------------------ claims
\* The counter stays within the bound.
C1_Bounded ==
  \A q \in Lanes : 0 <= activeCount[q] /\ activeCount[q] <= maxConcurrency[q]

C1_StartBelowBound ==
  \A t \in Tasks : StartStep(t) =>
    LET q == lane'[t]
        read == IF AddStep(t) THEN activeCount[q] ELSE activeCount[q] - 1 IN
    /\ read < maxConcurrency[q]
    /\ activeCount'[q] = read + 1
    /\ ~\E i \in 1..Len(queue'[q]) : queue'[q][i] = t

\* C1: for every bound N the queue was built with, 0 <= activeCount <= N in
\* every reachable state, and a task is taken from the pending list and
\* invoked only when the counter the guard of process() read was below N:
\* activeCount in an add, activeCount - 1 in the finally of a completion.
C1_ActiveCountBounded == []C1_Bounded /\ [][C1_StartBelowBound]_vars

\* C1 witness: a full lane with a task waiting, after a completion.
C1_Witness ==
  \E q \in Lanes, t \in Tasks :
    /\ activeCount[q] = maxConcurrency[q]
    /\ Len(queue[q]) > 0
    /\ lane[t] = q /\ pc[t] = "done"

\* C2: tasks of one queue are invoked in the order of their add calls: if b
\* was added after a and b has been invoked, a has been invoked.
C2_FifoStart ==
  \A a \in Tasks, b \in Tasks :
    (a < b /\ SameLane(a, b) /\ Started(b)) => Started(a)

\* C2 witness: two tasks wait in one lane behind an earlier one; the earlier
\* waiter is at the head.
C2_Witness ==
  \E q \in Lanes, a \in Tasks, b \in Tasks, c \in Tasks :
    /\ a < b /\ b < c
    /\ lane[a] = q /\ Started(a)
    /\ queue[q] = <<b, c>>

\* C3: in a queue of concurrency 1 a task is invoked only after every task
\* added before it to that queue has completed (resolved or rejected), so no
\* two of its tasks overlap.
C3_SerialOrder ==
  \A q \in Lanes : maxConcurrency[q] = 1 =>
    /\ \A a \in Tasks, b \in Tasks :
         (a < b /\ lane[a] = q /\ lane[b] = q /\ Started(b)) => Completed(a)
    /\ Cardinality({t \in Tasks : lane[t] = q /\ pc[t] = "running"}) <= 1

\* C3 witness: a queue of concurrency 1 that has completed one task, runs the
\* next and holds a third.
C3_Witness ==
  \E q \in Lanes, a \in Tasks, b \in Tasks, c \in Tasks :
    /\ maxConcurrency[q] = 1
    /\ a < b /\ b < c
    /\ lane[a] = q /\ lane[b] = q /\ lane[c] = q
    /\ pc[a] = "done" /\ pc[b] = "running" /\ pc[c] = "pending"

\* Invoked at most once, and in no pending list afterwards.
C4_Once ==
  \A t \in Tasks :
    /\ invoked[t] <= 1
    /\ Started(t) => \A q \in Lanes : ~InQueue(t, q)
    /\ Failed(t) => invoked[t] = 1

C4_NotRequeued ==
  \A t \in Tasks :
    (pc[t] \in {"running", "settled", "done"}) => pc'[t] \in {"running", "settled", "done"}

\* C4: every task given to add is invoked at most once: once invoked it is
\* in no pending list again, and a failed task is not invoked again.
C4_StartedAtMostOnce == []C4_Once /\ [][C4_NotRequeued]_vars

\* C4 witness: a task has failed and left the queue, and a later task of the
\* same lane has been invoked after it.
C4_Witness ==
  \E a \in Tasks, b \in Tasks :
    /\ a < b /\ SameLane(a, b)
    /\ Failed(a) /\ pc[a] = "done"
    /\ pc[b] = "done"

\* A rejection is written by the wrapper of the failed task, to its future.
C5_OwnFutureOnly ==
  \A t \in Tasks : (~Failed(t) /\ future'[t][1] = "rejected") =>
    /\ pc[t] = "running"
    /\ future'[t] = <<"rejected", t>>
    /\ \A u \in Tasks \ {t} : future'[u] = future[u]

C5_Advance ==
  \A t \in Tasks : ResumeStep(t) =>
    LET q == lane[t] IN
    IF queue[q] = <<>>
    THEN /\ activeCount'[q] = activeCount[q] - 1
         /\ queue'[q] = <<>>
    ELSE /\ activeCount'[q] = activeCount[q]
         /\ queue'[q] = Tail(queue[q])
         /\ pc'[Head(queue[q])] = "running"
         /\ invoked'[Head(queue[q])] = 1

\* C5: a failed task does not halt its queue.  The failure reaches only the
\* future of that task; the finally of its process() run takes the head of
\* the pending list and invokes it (activeCount back at its value), or, with
\* nothing pending, leaves activeCount one lower: the same for a failed and a
\* successful task.
C5_FailureDoesNotHalt == [][C5_OwnFutureOnly /\ C5_Advance]_vars

\* C5 witness: in a lane of concurrency 1 a task failed, its process() run is
\* over, the next task is running and another one waits.
C5_Witness ==
  \E q \in Lanes, a \in Tasks, b \in Tasks :
    /\ maxConcurrency[q] = 1
    /\ a < b /\ lane[a] = q /\ lane[b] = q
    /\ Failed(a) /\ pc[a] = "done"
    /\ pc[b] = "running"
    /\ Len(queue[q]) > 0

\* A future holds nothing, or the value or error of its own task.
C6_OwnOutcome ==
  \A t \in Tasks :
    /\ future[t] \in {<<"pending", 0>>, <<"resolved", t>>, <<"rejected", t>>}
    /\ Completed(t) <=> pc[t] \in {"settled", "done"}

C6_Once ==
  \A t \in Tasks : Completed(t) => future'[t] = future[t]

\* C6: the future of task t is settled once, by the wrapper of t, with the
\* value or the error of t; it is settled as soon as that wrapper resumes,
\* whatever the tasks invoked before it are doing.
C6_FutureSettlesOnce == []C6_OwnOutcome /\ [][C6_Once]_vars

\* C6 witness: a later task of a lane has settled its future while an earlier
\* one is still running.
C6_Witness ==
  \E a \in Tasks, b \in Tasks :
    /\ a < b /\ SameLane(a, b)
    /\ pc[a] = "running" /\ ~Completed(a)
    /\ future[b] = <<"resolved", b>>

\* Nothing pending and nothing counted in flight, in either lane.
Idle == \A q \in Lanes : queue[q] = <<>> /\ activeCount[q] = 0

AllOver == \A t \in Tasks : Added(t) => (Started(t) /\ Completed(t) /\ pc[t] = "done")

\* C7: when every invoked task completes, every task given to add is invoked
\* and its future settles, and after the last add the queues reach and keep
\* nothing pending and activeCount = 0; add calls and completions are the
\* only steps.  A run makes finitely many add calls, so the property is that
\* from some time on the queues are idle and every task added is over; a
\* task added and never over would contradict it.
C7_Drains == <>[](Idle /\ AllOver)

\* C7 witness: the serial lane is idle again after all its tasks, one of
\* them failed, were added, invoked and settled.
C7_Witness ==
  /\ Idle
  /\ \A t \in Tasks : pc[t] = "done" /\ lane[t] = "image"
  /\ \E a \in Tasks, b \in Tasks : Failed(a) /\ future[b] = <<"resolved", b>>

\* What an add call does with the task it is given.
C8_AddStep ==
  \A t \in Tasks : AddStep(t) =>
    LET q == lane'[t] IN
    IF activeCount[q] < maxConcurrency[q]
    THEN pc'[t] = "running" /\ queue'[q] = queue[q]
    ELSE pc'[t] = "pending" /\ queue'[q] = Append(queue[q], t)

InFlight(q) == {t \in Tasks : lane[t] = q /\ pc[t] \in {"running", "settled"}}

C8_OneSlotEach ==
  \A q \in Lanes :
    /\ activeCount[q] = Cardinality(InFlight(q))
    /\ \A h \in Tasks, t \in Tasks :
         (maxConcurrency[q] = 1 /\ lane[h] = q /\ lane[t] = q /\ h < t /\ pc[h] = "running")
           => pc[t] = "pending"

\* C8: a task added while activeCount is below the bound is invoked inside
\* that add call, and one added while activeCount is at the bound waits; no
\* completion is needed for either.  Each task in flight holds one slot, so
\* a task that never completes leaves the other slots usable, and in a queue
\* of concurrency 1 every task added after it stays pending.
C8_HungTaskHoldsOneSlot == []C8_OneSlotEach /\ [][C8_AddStep]_vars

\* C8 witness: the program's lanes; the first image task and the first text
\* task have not completed, a later image task waits and a later text task
\* runs.
C8_Witness ==
  \E h \in Tasks, t \in Tasks, a \in Tasks, b \in Tasks :
    /\ maxConcurrency = ProgramConcurrency
    /\ h < t /\ lane[h] = "image" /\ lane[t] = "image"
    /\ pc[h] = "running" /\ pc[t] = "pending"
    /\ a < b /\ lane[a] = "text" /\ lane[b] = "text"
    /\ pc[a] = "running" /\ pc[b] = "running"

\* A step of lane q leaves every other lane alone.
C9_Frame ==
  \A q \in Lanes :
    (\E t \in Tasks : lane'[t] = q /\ pc'[t] # pc[t]) =>
      \A o \in Lanes \ {q} :
        /\ queue'[o] = queue[o]
        /\ activeCount'[o] = activeCount[o]
        /\ \A u \in Tasks : lane[u] = o => (pc'[u] = pc[u] /\ future'[u] = future[u])

C9_OwnLaneOnly ==
  \A t \in Tasks : pc[t] = "pending" =>
    /\ InQueue(t, lane[t])
    /\ Cardinality(InFlight(lane[t])) = maxConcurrency[lane[t]]

\* C9: the two lanes are independent.  A step of one lane (an add, a
\* completion, the start that follows it) leaves the pending list, the
\* counter, the tasks and the futures of the other lane as they were; and a
\* task waits only while the tasks in flight of its own lane fill that lane.
C9_LanesIndependent == []C9_OwnLaneOnly /\ [][C9_Frame]_vars

\* C9 witness: an image task waits behind a running image task while a text
\* task dispatched after both is running.
C9_Witness ==
  \E a \in Tasks, b \in Tasks, c \in Tasks :
    /\ a < b /\ b < c
    /\ lane[a] = "image" /\ lane[b] = "image" /\ lane[c] = "text"
    /\ pc[a] = "running" /\ pc[b] = "pending" /\ pc[c] = "running"
    /\ activeCount["text"] = 1

\* The model id has the five letters of 'image' in a row.
ContainsImage(model) ==
  \E pre \in 0..Len(model) :
    /\ pre + 5 <= Len(model)
    /\ model[pre + 1] = "i" /\ model[pre + 2] = "m" /\ model[pre + 3] = "a"
    /\ model[pre + 4] = "g" /\ model[pre + 5] = "e"

HasImageConfigBlock(payload) ==
  \E g \in payload.generationConfig : \E c \in g.imageConfig : TRUE

C10_Routed ==
  \A t \in Tasks : AddStep(t) =>
    /\ dispatched'.task = t
    /\ lane'[t] = IF ContainsImage(dispatched'.model) \/ HasImageConfigBlock(dispatched'.payload)
                  THEN "image" ELSE "text"
    /\ \A u \in Tasks \ {t} : ~AddStep(u)

C10_OneQueue ==
  \A t \in Tasks :
    /\ Added(t) <=> lane[t] \in Lanes
    /\ \A q \in Lanes : InQueue(t, q) => (q = lane[t] /\ pc[t] = "pending")
    /\ pc[t] = "pending" => Cardinality({i \in 1..Len(queue[lane[t]]) : queue[lane[t]][i] = t}) = 1

\* C10: geminiRequest passes its task to the image queue exactly when the
\* model id contains 'image' or the payload has a generationConfig.imageConfig
\* block, and to the text queue otherwise; the task is in one queue only.
C10_RoutedToOneQueue == []C10_OneQueue /\ [][C10_Routed]_vars

\* C10 witness: a call with a model id without the marker and a payload with
\* an imageConfig block went to the image queue, and a call with neither went
\* to the text queue.
C10_Witness ==
  \E a \in Tasks :
    /\ lane[a] = "text"
    /\ dispatched.task > a
    /\ dispatched.model = UserModel
    /\ HasImageConfigBlock(dispatched.payload)
    /\ lane[dispatched.task] = "image"

\* ------------------------------------------------- claims: fetchWithRetry
IsRequest(x) == x.e = "request"
IsResponse(x) == x.e = "response"
IsWait(x) == x.e = "wait"
Requests == SelectSeq(log, IsRequest)
Responses == SelectSeq(log, IsResponse)
Waits == SelectSeq(log, IsWait)
\* The statuses the specification calls transient.
Transient(status) == status = 429 \/ status \in 500..599
Returned == fpc \in {"returned", "done"} /\ fetched.kind = "response"

\* C11: fetchWithRetry waits and asks again only after a response of status
\* 429 or 500..599; a response of any other status, on any attempt, is the
\* last event of the call and is what the call returns.
C11_RetryOnlyTransient ==
  \A i \in 1..Len(log) :
    /\ (log[i].e = "response" /\ ~Transient(log[i].v)) =>
         /\ i = Len(log)
         /\ Returned
         /\ fetched.status = log[i].v
    /\ log[i].e = "wait" => (log[i - 1].e = "response" /\ Transient(log[i - 1].v))
    /\ (log[i].e = "request" /\ i > 1) => log[i - 1].e = "wait"

\* C11 witness: the third request was answered 404 and the call returned it.
C11_Witness ==
  /\ Len(Requests) = 3
  /\ Returned /\ fetched.status = 404
  /\ log[Len(log)] = Event("response", 404)

\* C12: the wait before retry k is 2^(k-1) * 2000 ms (2000, 4000, 8000 for
\* k = 1, 2, 3), whatever the run; and every wait stands between a transient
\* response and the next request.
C12_BackoffDelays ==
  /\ \A k \in 1..Len(Waits) : Waits[k].v = (2 ^ (k - 1)) * 2000
  /\ Len(Waits) >= 1 => Waits[1].v = 2000
  /\ Len(Waits) >= 2 => Waits[2].v = 4000
  /\ Len(Waits) >= 3 => Waits[3].v = 8000
  /\ \A i \in 1..Len(log) : log[i].e = "wait" =>
       /\ i > 1 /\ log[i - 1].e = "response" /\ Transient(log[i - 1].v)
       /\ i < Len(log) => log[i + 1].e = "request"
       /\ i = Len(log) => fpc = "wait"

\* C12 witness: three waits have been made and the fourth request is out.
C12_Witness ==
  /\ Len(Waits) = 3
  /\ Len(Requests) = 4
  /\ fpc = "fetch"

\* C13: with maxRetries = 3, three responses of status 500 in a row are
\* followed by three retries after 2000, 4000 and 8000 ms; and for every
\* maxRetries, when the response to retry number maxRetries is still
\* transient the call returns that response as its value: no further request,
\* no failure.
C13_ExhaustedReturnsLast ==
  /\ Len(Requests) <= maxRetries + 1
  /\ Len(Waits) <= maxRetries
  /\ (Len(Responses) = maxRetries + 1) =>
       /\ Returned
       /\ fetched.status = Responses[maxRetries + 1].v
       /\ log[Len(log)] = Responses[maxRetries + 1]
       /\ Len(Waits) = maxRetries
  /\ (/\ maxRetries = 3
      /\ Len(Responses) >= 3
      /\ \A k \in 1..3 : Responses[k].v = 500) =>
       /\ Len(Waits) = 3
       /\ Waits[1].v = 2000 /\ Waits[2].v = 4000 /\ Waits[3].v = 8000
       /\ (fpc = "done" => Len(Requests) = 4)

\* C13 witness: maxRetries = 3, four responses of status 500, and the call
\* returned the fourth.
C13_Witness ==
  /\ maxRetries = 3
  /\ Len(Responses) = 4
  /\ \A k \in 1..4 : Responses[k].v = 500
  /\ fpc = "returned"
  /\ fetched.kind = "response" /\ fetched.status = 500

\* C14: a request that fails at transport level, on whatever attempt, ends
\* the call with that failure: it is the last event, no wait and no request
\* follow it.
C14_TransportFailureEnds ==
  \A i \in 1..Len(log) : log[i].e = "failure" =>
    /\ i = Len(log)
    /\ log[i - 1].e = "request"
    /\ fpc = "done"
    /\ fetched.kind = "failure"
    /\ outcome.state = "rejected" /\ outcome.error = "TypeError"

\* C14 witness: the third request failed after two transient responses.
C14_Witness ==
  /\ Len(Requests) = 3
  /\ Len(Responses) = 2
  /\ log[Len(log)].e = "failure"
  /\ fetched.kind = "failure"

\* ------------------------------------------- claims: the task's response
\* The detail the specification asks for: error.message, else the serialized
\* JSON, and for a body that is not JSON its raw text.
ExpectedDetail(b) ==
  IF b.json
  THEN (IF b.message # {} THEN CHOOSE m \in b.message : TRUE ELSE "serialized JSON")
  ELSE "raw text"

Finished == fpc = "done" /\ fetched.kind = "response"

\* C17: when the response fetchWithRetry returned is not ok, the task fails
\* with an Error that carries the status and the detail of the body, for a
\* JSON body and for a body that is not JSON.
C17_FailureCarriesStatusAndDetail ==
  (Finished /\ fetched.status \notin 200..299) =>
    \A b \in fetched.body :
      /\ outcome.state = "rejected"
      /\ outcome.error = "Error"
      /\ outcome.status = fetched.status
      /\ outcome.detail = ExpectedDetail(b)

\* C18: the task resolves only on an ok response; a transient status left
\* after the last retry becomes a failure that carries that status, and a
\* permanent 4xx answered to the first request becomes a failure after that
\* one request.
C18_ResultOnlyOnSuccess ==
  Finished =>
    /\ outcome.state \in {"resolved", "rejected"}
    /\ outcome.state = "resolved" => fetched.status \in 200..299
    /\ fetched.status \notin 200..299 => outcome.state = "rejected"
    /\ (Len(Responses) = maxRetries + 1 /\ Transient(fetched.status)) =>
         (outcome.error = "Error" /\ outcome.status = fetched.status)
    /\ (Responses[1].v \in 400..499 /\ Responses[1].v # 429) =>
         (Len(Requests) = 1 /\ fetched.status = Responses[1].v)

\* --------------------------------------- claims: configuration and URL
\* The host the configuration read by the dispatch names; none is "".
Host == IF config.apiHost = {} THEN <<>> ELSE CHOOSE h \in config.apiHost : TRUE
Dispatched == opc = "dispatched"

\* C15: a dispatch with an empty configured host calls the default public
\* origin; with host "/api" the URL is relative and starts with /api; with
\* host "example.com" the call goes to https://example.com.
C15_HostExamples ==
  Dispatched =>
    /\ Host = <<>> => StartsWith(request.url, DefaultOrigin \o ModelsPath)
    /\ Host = ApiPath => StartsWith(request.url, ApiPath \o ModelsPath)
    /\ Host = ExampleHost =>
         StartsWith(request.url, HttpsPrefix \o ExampleHost \o ModelsPath)

C15_Witness ==
  /\ Dispatched
  /\ Host = ApiPath
  /\ op = "editFrame"
  /\ request.url = Url(ApiPath, EditModelDefault, <<"K">>)

\* C16: for every configured host that begins with '/', the URL of the
\* request is same-origin relative: it begins with '/', nothing is put in
\* front of it.
C16_SlashHostStaysRelative ==
  (Dispatched /\ StartsWith(Host, <<"/">>)) => StartsWith(request.url, <<"/">>)

\* C19: when nothing is kept under the settings key, or what is kept cannot
\* be parsed, getConfig returns the built-in default of every field and
\* raises nothing; the two cases give the same result.
C19_DefaultsWhenAbsentOrUnparsable ==
  (opc # "idle" /\ stored.item \in {"absent", "empty", "garbage"}) =>
    /\ opc # "raised"
    /\ config.t = "object"
    /\ config.apiHost = {<<>>}
    /\ config.apiKey = {<<>>}
    /\ config.textModel = {TextModelDefault}
    /\ config.imageModel = {ImageModelDefault}

C19_Witness ==
  /\ Dispatched
  /\ stored.item = "garbage"
  /\ config = DefaultConfig
  /\ op = "analyzeAsset"
  /\ opModel = TextModelDefault

\* C20: whatever is kept under the settings key, no public operation fails
\* because of it, and the request is built with the default of whatever is
\* missing.
C20_MalformedNeverRaised ==
  /\ opc # "raised"
  /\ Dispatched =>
       /\ config.apiHost = {} => StartsWith(request.url, DefaultOrigin \o ModelsPath)
       /\ config.apiKey = {} => request.apiKey = envKey
       /\ (op # "testConnection" /\ config[ModelField(op)] = {}) =>
            opModel = ModelDefault(op)

\* ------------------------------------------------------- claims: settings
\* What the record now kept under the settings key gives for a field: its
\* value, or the fallback when nothing is kept or the field is empty.
Kept(field, fallback) ==
  IF stored.item = "json" /\ stored.value[field] \notin {{}, {<<>>}}
  THEN CHOOSE x \in stored.value[field] : TRUE
  ELSE fallback

Keeps(field) == Kept(field, <<>>) # <<>>

BuildsRequest == opc # "dispatched" /\ opc' = "dispatched"

\* C21: the configuration is read on every dispatch and not cached: the
\* request a dispatch builds has the host and the API key of the record
\* kept at that moment, and, the record being the one the operation was
\* called under, the model id that record names; what an earlier call read
\* plays no part.
C21_ReadOnEveryDispatch ==
  [][BuildsRequest =>
       /\ request'.apiKey = Kept("apiKey", envKey)
       /\ request'.url =
            Url(NormalizeBaseUrl(Kept("apiHost", <<>>)), opModel', Kept("apiKey", envKey))
       /\ (/\ opc = "idle" \/ config = GetConfig(stored)
           /\ op' # "testConnection"
           /\ Keeps(ModelField(op'))) => opModel' = Kept(ModelField(op'), <<>>)]_vars

\* A second request, built after a save, with the new host, key and model
\* where the first had the defaults.
C21_Witness ==
  /\ Dispatched
  /\ op = "generateStoryboardFrame"
  /\ previous = [url |-> Url(DefaultOrigin, ImageModelDefault, <<>>),
                 apiKey |-> <<>>, queue |-> "image"]
  /\ request = [url |-> Url(HttpsPrefix \o ExampleHost, UserModel, <<"K">>),
                apiKey |-> <<"K">>, queue |-> "image"]

\* -------------------------------------------------------- claims: results
ImageOps == {"generateStoryboardFrame", "editFrame", "refineImageClarity"}
HasReturned == opc = "returned"
\* The content parts of the first candidate of the response.
Seen == OrEmpty(FirstParts(data))
CarriesImage(part) ==
  \E x \in part.inlineData : x.data # {} /\ x.data # {<<>>}
ImageOf(part) == CHOOSE b \in (CHOOSE x \in part.inlineData : TRUE).data : TRUE
FirstWith(P(_), i) == P(Seen[i]) /\ \A j \in 1..(i - 1) : ~P(Seen[j])

\* C22: generate-frame, edit-frame and refine-clarity build their result
\* from the first part of the first candidate that carries inline image
\* data: parts before it without image data are skipped, parts after it and
\* the other candidates play no part.
C22_FirstInlineImage ==
  (HasReturned /\ op \in ImageOps) =>
    /\ \A i \in 1..Len(Seen) :
         FirstWith(CarriesImage, i) => result = [kind |-> "blob", value |-> ImageOf(Seen[i])]
    /\ result.kind = "blob" => \E i \in 1..Len(Seen) : CarriesImage(Seen[i])

C22_Witness ==
  /\ HasReturned
  /\ op = "refineImageClarity"
  /\ Len(Seen) = 2
  /\ ~CarriesImage(Seen[1])
  /\ CarriesImage(Seen[2])
  /\ Len(OrEmpty(data.candidates)) = 2
  /\ result = [kind |-> "blob", value |-> <<"b", "1">>]

\* C23: a successful response none of whose candidate parts has an
\* inlineData field (no candidates, no content, no parts or an empty list
\* included) makes the three image operations return undefined; they do
\* not fail.
C23_NoImageIsUndefined ==
  (HasReturned /\ op \in ImageOps /\ \A i \in 1..Len(Seen) : Seen[i].inlineData = {})
    => result = Undefined

C23_Witness ==
  /\ HasReturned
  /\ op = "editFrame"
  /\ data = [candidates |-> {<<>>}]
  /\ result = Undefined

\* C24: analyze-asset returns the text of the first part of the first
\* candidate that carries text, wherever in the list it is, and "Asset"
\* only when no part carries text.
CarriesText(part) == part.text # {}
C24_FirstTextPart ==
  (HasReturned /\ op = "analyzeAsset") =>
    /\ \A i \in 1..Len(Seen) :
         FirstWith(CarriesText, i) => result.value = CHOOSE t \in Seen[i].text : TRUE
    /\ result.value = Placeholder => \A i \in 1..Len(Seen) : ~CarriesText(Seen[i])

\* ------------------------------------------------- claims: base endpoint
\* The base endpoint of the request: its URL without the path, the model,
\* the action and the key.
Base ==
  SubSeq(request.url, 1, Len(request.url) - Len(Url(<<>>, opModel, request.apiKey)))
EndsWithSlash(s) == s # <<>> /\ s[Len(s)] = "/"
\* The configured host without the white space around it and without the
\* slashes at its end.
Bare == StripTrailingSlashes(Trim(Host))

\* C27, as stated, on the configured host as it is written: the base
\* endpoint never ends with '/'; a host that starts with http:// or
\* https:// in any letter case keeps its scheme; any other non-empty host
\* that does not start with '/' gets exactly one https:// in front.
C27_SchemeOfHost ==
  Dispatched =>
    /\ ~EndsWithSlash(Base)
    /\ HasScheme(Host) => (StartsWith(Host, Base) /\ HasScheme(Base))
    /\ (Host # <<>> /\ ~StartsWith(Host, <<"/">>) /\ ~HasScheme(Host)) =>
         (/\ StartsWith(Base, HttpsPrefix)
          /\ ~HasScheme(SubSeq(Base, Len(HttpsPrefix) + 1, Len(Base))))

\* C27, amended: the same on the host without the white space around it and
\* the slashes at its end.  If that starts with http:// or https:// in any
\* letter case it is the base endpoint as it is; if it is non-empty, does
\* not start with '/' and has no such scheme, the base endpoint is it with
\* exactly one https:// in front; the base endpoint never ends with '/'.
C27_SchemeOfBareHost ==
  Dispatched =>
    /\ ~EndsWithSlash(Base)
    /\ HasScheme(Bare) => Base = Bare
    /\ (Bare # <<>> /\ ~StartsWith(Bare, <<"/">>) /\ ~HasScheme(Bare)) =>
         (Base = HttpsPrefix \o Bare /\ ~HasScheme(Bare))

C27_Witness ==
  /\ Dispatched
  /\ Host = <<"H", "T", "T", "P", "S", ":", "/", "/", "a", "/">>
  /\ Base = <<"H", "T", "T", "P", "S", ":", "/", "/", "a">>

\* ----------------------------------------------- claims: default model id
\* Nothing usable is kept under the settings key, or the record kept has no
\* image model id.
NoImageModelKept ==
  \/ stored.item \in {"absent", "empty", "garbage"}
  \/ stored.item = "json" /\ stored.value.imageModel \in {{}, {<<>>}}

\* C28: when the record kept supplies no image model id, generate-frame,
\* edit-frame and refine-clarity all dispatch with the default image model
\* id getConfig returns for an absent record, gemini-3-pro-image-preview,
\* the record being absent as a whole or present without the field.
C28_SameDefaultImageModel ==
  (Dispatched /\ op \in ImageOps /\ NoImageModelKept) =>
    /\ opModel = ImageModelDefault
    /\ request.url = Url(Base, ImageModelDefault, request.apiKey)

\* ------------------------------------------------- claims: the counter
\* C29: between the runs of the queue's methods a task never waits while a
\* slot is free: a non-empty pending list implies activeCount =
\* maxConcurrency, after any adds and completions.
C29_WorkConserving ==
  \A q \in Lanes : queue[q] # <<>> => activeCount[q] = maxConcurrency[q]

\* C29 witness: a queue of bound 2 is full with a task waiting, after a
\* task of that queue failed and left.
C29_Witness ==
  \E q \in Lanes, t \in Tasks :
    /\ maxConcurrency[q] = 2
    /\ activeCount[q] = 2
    /\ queue[q] # <<>>
    /\ lane[t] = q /\ pc[t] = "done" /\ Failed(t)

\* Tasks of q that were invoked and whose process() has not come back from
\* its await.
Uncompleted(q) == {t \in Tasks : lane[t] = q /\ Started(t) /\ pc[t] # "done"}
Starts(q) == {t \in Tasks : lane'[t] = q /\ StartStep(t)}
Ends(q) == {t \in Tasks : lane[t] = q /\ ResumeStep(t)}

C30_Counted ==
  \A q \in Lanes :
    /\ activeCount[q] = Cardinality(Uncompleted(q))
    /\ (queue[q] = <<>> /\ Uncompleted(q) = {}) => activeCount[q] = 0

C30_Step ==
  /\ \A q \in Lanes :
       activeCount'[q] = activeCount[q] + Cardinality(Starts(q)) - Cardinality(Ends(q))
  /\ \A t \in Tasks : (pc[t] = "done" => pc'[t] = "done") /\ invoked'[t] <= 1

\* C30: activeCount is the number of tasks started and not yet completed:
\* each start adds one and each completion, of a success or of a failure,
\* takes one off, once; a queue with nothing pending and nothing started
\* and uncompleted has activeCount = 0.
C30_CountsStartedUncompleted == []C30_Counted /\ [][C30_Step]_vars

\* C30 witness: a failure and a success have completed, one task is
\* started and uncompleted, and the counter of their queue is 1.
C30_Witness ==
  \E q \in Lanes, a \in Tasks, b \in Tasks, c \in Tasks :
    /\ lane[a] = q /\ lane[b] = q /\ lane[c] = q
    /\ pc[a] = "done" /\ Failed(a)
    /\ pc[b] = "done" /\ ~Failed(b)
    /\ pc[c] = "running"
    /\ activeCount[q] = 1

\* ---------------------------------------------- claims: transport failure
\* The failure carries the composed message of the status.
CarriesStatus == outcome.error = "Error" /\ outcome.status # 0
TransportFailed == fpc = "done" /\ fetched.kind = "failure"
StatusFailed == Finished /\ ~(fetched.status \in 200..299)

\* C26: a transport failure inside a dispatch reaches the caller as the
\* failure it was, the logging in between neither swallowing nor replacing
\* it, and it is told from a failure of the HTTP status by not carrying the
\* composed status message, which every failure of the status carries.
C26_TransportFailureTold ==
  /\ TransportFailed => outcome = Rejected("TypeError", 0, "Failed to fetch")
  /\ (TransportFailed \/ StatusFailed) =>
       (/\ outcome.state = "rejected"
        /\ ~CarriesStatus <=> TransportFailed)

\* ---------------------------------------------------- claims: the lanes
\* fetchWithRetry invocations of lane q in progress: a request out or a
\* backoff wait going on.
InProgress(q) == laneFetching[q] + laneWaiting[q]

C25_Held ==
  /\ InProgress("image") <= 1
  /\ InProgress("text") <= 10
  /\ \A q \in Lanes :
       /\ laneActive[q] = InProgress(q) + laneSettled[q]
       /\ laneLen[q] > 0 => laneActive[q] = maxConcurrency[q]

\* A pending task of q is started only by the finally of a task of q that
\* is over; a wait, a retry or a call starts none.
C25_StartsOnReturn ==
  \A q \in Lanes :
    (laneLen[q] > 0 /\ InProgress(q)' > InProgress(q) /\ laneWaiting'[q] = laneWaiting[q])
      => (laneSettled'[q] = laneSettled[q] - 1 /\ laneLen'[q] = laneLen[q] - 1)

\* C25: a slot of a lane is held for the whole of one dispatch, the backoff
\* waits included: at most 1 fetchWithRetry invocation of the image lane is
\* in progress at any time, so an image request that is retrying keeps the
\* queued image requests waiting until it returns; at most 10 are in
\* progress in the text lane and the 11th waits.
C25_SlotHeldThroughBackoff == []C25_Held /\ [][C25_StartsOnReturn]_vars

\* C25 witness: ten text invocations in progress, one of them in a backoff
\* wait, and the 11th pending; the one image invocation in a backoff wait
\* and an image request pending behind it.
C25_Witness ==
  /\ InProgress("text") = 10
  /\ laneWaiting["text"] >= 1
  /\ laneLen["text"] = 1
  /\ laneWaiting["image"] = 1
  /\ laneLen["image"] >= 1

\* ------------------------------------- claims: termination of one call
\* fetchWithRetry has returned a response or thrown.
CallEnded == fpc \in {"returned", "done"}

\* C31: for every maxRetries >= 0 and every run of response statuses, one
\* call of fetchWithRetry issues at least one and at most maxRetries + 1
\* requests, the fetch written after the while loop is never reached, and
\* the call ends when each of its requests ends.
C31_BoundedRequestsAndEnds ==
  /\ [](/\ Len(Requests) >= 1
        /\ Len(Requests) <= maxRetries + 1
        /\ fpc # "lastFetch"
        /\ attempt <= maxRetries
        /\ Len(Requests) = attempt + 1)
  /\ <>CallEnded

\* C31 witness: with maxRetries >= 1 the call made maxRetries + 1 requests
\* and returned the last response.
C31_Witness ==
  /\ maxRetries >= 1
  /\ Len(Requests) = maxRetries + 1
  /\ fpc = "returned"
  /\ Transient(fetched.status)

\* ------------------------------------ claims: normalizeBaseUrl, twice
Blank(c) == c = " "
NoOuterBlank(s) == s = <<>> \/ (~Blank(s[1]) /\ ~Blank(s[Len(s)]))

\* C32: normalizeBaseUrl applied to the base endpoint it produced gives that
\* base endpoint again, and the base endpoint has no white space at its
\* start or at its end, for every configured host.
C32_NormalizeIdempotent ==
  Dispatched =>
    /\ NormalizeBaseUrl(Base) = Base
    /\ NoOuterBlank(Base)

\* ------------------------------------- claims: the request that is sent
\* The request geminiRequest builds from a configuration it read.
BuiltFrom(cfg) ==
  LET apiKey == OrElse(cfg.apiKey, envKey)
  IN  [url |-> Url(NormalizeBaseUrl(OrElse(cfg.apiHost, <<>>)), opModel, apiKey),
       apiKey |-> apiKey]

\* C33: every request the task of a dispatch sends, the first one and every
\* retry, has the URL and the key built from the configuration the dispatch
\* read when it was called, whatever was saved in the settings while the
\* task was in the pending list or between two of its requests.
C33_RequestFixedAtDispatch ==
  \A i \in 1..Len(sent) :
    /\ sent[i].request.url = BuiltFrom(config).url
    /\ sent[i].request.apiKey = BuiltFrom(config).apiKey
    /\ sent[i].request = sent[1].request

\* C33 witness: the settings were changed while the task was in the pending
\* list, were put back, and were changed again before the second retry.
C33_Witness ==
  /\ Len(sent) = 3
  /\ sent[1].changed /\ ~sent[2].changed /\ sent[3].changed
  /\ BuiltFrom(GetConfig(stored)).url # sent[3].request.url

\* --------------------------------- claims: one snapshot for one request
\* The model id the operation would choose from a configuration.
ModelFrom(cfg) == OrElse(cfg[ModelField(op)], ModelDefault(op))

\* C34: the model id in the URL of a request, its host and its key come from
\* one and the same read of the settings: the model id is the one the
\* configuration read by the dispatch (the one that gave host and key) names,
\* also when the settings were saved while the payload was being built.
C34_SingleSnapshot ==
  (Dispatched /\ op # "testConnection") =>
    /\ opModel = ModelFrom(config)
    /\ request.url = Url(NormalizeBaseUrl(OrElse(config.apiHost, <<>>)), ModelFrom(config), request.apiKey)

\* ------------------------------------ claims: the lane of an operation
ViaImageLane == request.queue = "image"

\* C35: every dispatch of generateStoryboardFrame and of refineImageClarity
\* is passed to the image queue, whatever image model id the configuration
\* names, ids without 'image' in them included.
C35_FrameAndRefineViaImageLane ==
  (Dispatched /\ op \in {"generateStoryboardFrame", "refineImageClarity"}) => ViaImageLane

\* C35 witness: refineImageClarity dispatched with a configured model id
\* that does not contain 'image', through the image queue.
C35_Witness ==
  /\ Dispatched
  /\ op = "refineImageClarity"
  /\ opModel = UserModel
  /\ ~Includes(opModel, ImageMarker)
  /\ ViaImageLane

\* C36: every dispatch of editFrame is passed to the image queue (bound 1),
\* whatever image model id the configuration names, so that no two
\* edit-frame requests, and no edit-frame and generate-frame request, are in
\* flight together.
C36_EditViaImageLane ==
  (Dispatched /\ op = "editFrame") => ViaImageLane

\* ------------------------------------------------- claims: the editor
Present == DOMAIN nodes
Waiting(id) == \E c \in calls : c.id = id

\* C37: the isGenerating flag handleGenerate or handleEditSave set on a node
\* is cleared once the service call has settled, whether it gave an image,
\* no result or a failure: a node whose flag is set has a call that has not
\* settled yet.
C37_FlagClearedOnSettle ==
  \A id \in Present : nodes[id].isGenerating => Waiting(id)

\* C38: in every state the imageUrl of every node of the graph is an object
\* URL that has not been revoked.
C38_ImageUrlNotRevoked ==
  \A id \in Present : nodes[id].imageUrl # NoUrl => nodes[id].imageUrl \notin revoked

\* C39: in every state every edge joins two nodes of the graph, and every id
\* in the parentIds and in the connectedTo of a node of the graph is a node
\* of the graph joined to it by an edge.
C39_ReferentialIntegrity ==
  /\ \A e \in edges : e[1] \in Present /\ e[2] \in Present
  /\ \A id \in Present :
       /\ \A p \in nodes[id].parentIds : p \in Present /\ <<p, id>> \in edges
       /\ \A t \in nodes[id].connectedTo : t \in Present /\ <<id, t>> \in edges

====
